---------------------------- MODULE Spec2Model ----------------------------
(***************************************************************************)
(* Model of src/src/App.tsx: the market-analysis component.  A string is a *)
(* sequence of one-character strings; the JavaScript string methods the    *)
(* parsers use (split, trim, toLowerCase, includes, join) are operators    *)
(* on such sequences that compute what the methods compute.                *)
(***************************************************************************)
EXTENDS Naturals, Sequences, FiniteSets, TLC

(***************************************************************************)
(* Characters and the JavaScript string methods                            *)
(***************************************************************************)
Digits == {"0", "1", "2", "3", "4", "5", "6", "7", "8", "9"}

\* The white space \s and trim() recognise, within the model's alphabet.
WhiteSpace == {" ", "\n", "\t"}

Min(S) == CHOOSE i \in S : \A j \in S : i <= j

\* s.substring(from - 1, to - 1): the characters at from .. to - 1.
Slice(s, from, to) == SubSeq(s, from, to - 1)

\* The first index >= q of s that holds no character of class, Len(s) + 1 if none.
RECURSIVE RunEnd(_, _, _)
RunEnd(s, q, class) ==
  IF q > Len(s) \/ s[q] \notin class THEN q ELSE RunEnd(s, q + 1, class)

\* The last index <= q of s that holds no character of class, 0 if none.
RECURSIVE RunStart(_, _, _)
RunStart(s, q, class) ==
  IF q < 1 \/ s[q] \notin class THEN q ELSE RunStart(s, q - 1, class)

\* String.prototype.trim
trim(s) == SubSeq(s, RunEnd(s, 1, WhiteSpace), RunStart(s, Len(s), WhiteSpace))

LowerOf ==
  [c \in {"A", "B", "C", "D", "E", "F", "G", "H", "I", "J", "K", "L", "M", "N",
          "O", "P", "Q", "R", "S", "T", "U", "V", "W", "X", "Y", "Z"} |->
   CASE c = "A" -> "a" [] c = "B" -> "b" [] c = "C" -> "c" [] c = "D" -> "d"
     [] c = "E" -> "e" [] c = "F" -> "f" [] c = "G" -> "g" [] c = "H" -> "h"
     [] c = "I" -> "i" [] c = "J" -> "j" [] c = "K" -> "k" [] c = "L" -> "l"
     [] c = "M" -> "m" [] c = "N" -> "n" [] c = "O" -> "o" [] c = "P" -> "p"
     [] c = "Q" -> "q" [] c = "R" -> "r" [] c = "S" -> "s" [] c = "T" -> "t"
     [] c = "U" -> "u" [] c = "V" -> "v" [] c = "W" -> "w" [] c = "X" -> "x"
     [] c = "Y" -> "y" [] c = "Z" -> "z"]

\* String.prototype.toLowerCase
toLowerCase(s) ==
  [i \in 1..Len(s) |-> IF s[i] \in DOMAIN LowerOf THEN LowerOf[s[i]] ELSE s[i]]

\* Whether sub occurs in s at index i.
OccursAt(s, sub, i) ==
  /\ i + Len(sub) - 1 <= Len(s)
  /\ \A k \in 1..Len(sub) : s[i + k - 1] = sub[k]

\* String.prototype.includes
includes(s, sub) == \E i \in 1..(Len(s) + 1) : OccursAt(s, sub, i)

\* The pieces of s between the cut points: cuts is a set of pairs <<q, e>>,
\* the separator occupying q .. e - 1; p is where the current piece begins.
\* As String.prototype.split does, the leftmost separator at or after p is
\* taken and the search goes on from its end.
RECURSIVE SplitFrom(_, _, _)
SplitFrom(s, cuts, p) ==
  LET ahead == {c \in cuts : c[1] >= p}
  IN  IF ahead = {} THEN <<Slice(s, p, Len(s) + 1)>>
      ELSE LET q == Min({c[1] : c \in ahead})
               c == CHOOSE d \in ahead : d[1] = q
           IN  <<Slice(s, p, q)>> \o SplitFrom(s, cuts, c[2])

\* s.split(ch) for a one-character separator
splitChar(s, ch) ==
  SplitFrom(s, {<<i, i + 1>> : i \in {j \in 1..Len(s) : s[j] = ch}}, 1)

\* Array.prototype.join(sep)
RECURSIVE join(_, _)
join(parts, sep) ==
  IF Len(parts) = 0 THEN <<>>
  ELSE IF Len(parts) = 1 THEN parts[1]
  ELSE parts[1] \o sep \o join(Tail(parts), sep)

\* Where /\d+\.\s+/ matches when tried at index q: the index after the
\* match, 0 when it does not match at q.
NumberMarkerAt(s, q) ==
  IF q > Len(s) \/ s[q] \notin Digits THEN 0
  ELSE LET d == RunEnd(s, q, Digits)
       IN  IF d + 1 > Len(s) \/ s[d] # "." \/ s[d + 1] \notin WhiteSpace THEN 0
           ELSE RunEnd(s, d + 1, WhiteSpace)

\* text.split(/\d+\.\s+/)
splitNumbered(text) ==
  SplitFrom(text,
            {<<q, NumberMarkerAt(text, q)>> :
               q \in {i \in 1..Len(text) : NumberMarkerAt(text, i) # 0}},
            1)


(***************************************************************************)
(* The record parser shared by the three entity parsers                    *)
(***************************************************************************)
RECURSIVE trimEach(_)
trimEach(parts) ==
  IF parts = <<>> THEN <<>> ELSE <<trim(Head(parts))>> \o trimEach(Tail(parts))

\* const [key, ...valueParts] = line.split(':').map(part => part.trim());
\* const value = valueParts.join(':').trim();
splitLine(line) ==
  LET parts == trimEach(splitChar(line, ":"))
  IN  [key |-> Head(parts), value |-> trim(join(Tail(parts), <<":">>))]

\* An object with no property.
EmptyObject == [f \in {} |-> <<>>]

\* obj.f = v
Put(obj, f, v) == [x \in DOMAIN obj \cup {f} |-> IF x = f THEN v ELSE obj[x]]

\* Whether obj.f is truthy: a property that is set to a non-empty string.
Truthy(obj, f) == f \in DOMAIN obj /\ obj[f] # <<>>

\* The loop over a section's lines: a line with an empty key or an empty
\* value is skipped, a key that is one of the labels (compared in lower case)
\* sets the label's property, any other key is ignored.
RECURSIVE parseLines(_, _, _)
parseLines(lines, obj, labels) ==
  IF lines = <<>> THEN obj
  ELSE LET kv    == splitLine(Head(lines))
           hit   == {f \in DOMAIN labels : labels[f] = toLowerCase(kv.key)}
           after == IF kv.key = <<>> \/ kv.value = <<>> \/ hit = {} THEN obj
                    ELSE Put(obj, CHOOSE f \in hit : TRUE, kv.value)
       IN  parseLines(Tail(lines), after, labels)

LabelName == <<"n", "a", "m", "e">>
LabelDescription == <<"d", "e", "s", "c", "r", "i", "p", "t", "i", "o", "n">>
LabelHeadquarters == <<"h", "e", "a", "d", "q", "u", "a", "r", "t", "e", "r", "s">>
LabelRevenue == <<"r", "e", "v", "e", "n", "u", "e">>
LabelMarketSize == <<"m", "a", "r", "k", "e", "t", " ", "s", "i", "z", "e">>
LabelGrowthRate == <<"g", "r", "o", "w", "t", "h", " ", "r", "a", "t", "e">>
LabelCaresMostAbout ==
  <<"c", "a", "r", "e", "s", " ", "m", "o", "s", "t", " ", "a", "b", "o", "u", "t">>
LabelCaresLeastAbout ==
  <<"c", "a", "r", "e", "s", " ", "l", "e", "a", "s", "t", " ", "a", "b", "o", "u", "t">>

\* The switch of parseCompetitors: label -> property.
CompetitorLabels ==
  [name |-> LabelName, description |-> LabelDescription,
   headquarters |-> LabelHeadquarters, revenue |-> LabelRevenue]

\* The switch of parseApplications.
ApplicationLabels ==
  [name |-> LabelName, description |-> LabelDescription,
   marketSize |-> LabelMarketSize, growthRate |-> LabelGrowthRate]

\* The switch of parseCustomerPersonas.
PersonaLabels ==
  [name |-> LabelName, description |-> LabelDescription,
   caresMostAbout |-> LabelCaresMostAbout, caresLeastAbout |-> LabelCaresLeastAbout]

\* The completeness test with its headquarters conjunct left out.
competitorCompleteNoHeadquarters(competitor) ==
  /\ Truthy(competitor, "name") /\ Truthy(competitor, "description")
  /\ Truthy(competitor, "revenue")

\* if (competitor.name && competitor.description && competitor.headquarters
\*     && competitor.revenue)
competitorComplete(competitor) ==
  /\ Truthy(competitor, "name") /\ Truthy(competitor, "description")
  /\ Truthy(competitor, "headquarters") /\ Truthy(competitor, "revenue")

applicationComplete(application) ==
  /\ Truthy(application, "name") /\ Truthy(application, "description")
  /\ Truthy(application, "marketSize") /\ Truthy(application, "growthRate")

personaComplete(persona) ==
  /\ Truthy(persona, "name") /\ Truthy(persona, "description")
  /\ Truthy(persona, "caresMostAbout") /\ Truthy(persona, "caresLeastAbout")

RECURSIVE competitorsOf(_)
competitorsOf(sections) ==
  IF sections = <<>> THEN <<>>
  ELSE LET section    == Head(sections)
           competitor == parseLines(splitChar(section, "\n"), EmptyObject,
                                    CompetitorLabels)
       IN  IF trim(section) = <<>> THEN competitorsOf(Tail(sections))
           ELSE IF competitorComplete(competitor)
                THEN <<competitor>> \o competitorsOf(Tail(sections))
                ELSE competitorsOf(Tail(sections))

parseCompetitors(text) == competitorsOf(splitNumbered(text))

RECURSIVE applicationsOf(_)
applicationsOf(sections) ==
  IF sections = <<>> THEN <<>>
  ELSE LET section     == Head(sections)
           application == parseLines(splitChar(section, "\n"), EmptyObject,
                                     ApplicationLabels)
       IN  IF trim(section) = <<>> THEN applicationsOf(Tail(sections))
           ELSE IF applicationComplete(application)
                THEN <<application>> \o applicationsOf(Tail(sections))
                ELSE applicationsOf(Tail(sections))

parseApplications(text) == applicationsOf(splitNumbered(text))

(***************************************************************************)
(* Potential customers and the personas                                    *)
(***************************************************************************)
\* The filter comparing the line and the name as written, not in lower case.
RECURSIVE relevantCustomersCaseSensitive(_, _)
relevantCustomersCaseSensitive(customerLines, personaName) ==
  IF customerLines = <<>> THEN <<>>
  ELSE LET line     == Head(customerLines)
           customer == trim(Head(splitChar(line, "-")))
           rest     == relevantCustomersCaseSensitive(Tail(customerLines),
                                                      personaName)
       IN  IF includes(line, personaName) /\ Len(customer) > 0
           THEN <<customer>> \o rest
           ELSE rest

\* customerLines.filter(line => line.toLowerCase().includes(name.toLowerCase()))
\*   .map(line => line.split('-')[0].trim()).filter(customer => customer.length > 0)
RECURSIVE relevantCustomers(_, _)
relevantCustomers(customerLines, personaName) ==
  IF customerLines = <<>> THEN <<>>
  ELSE LET line     == Head(customerLines)
           customer == trim(Head(splitChar(line, "-")))
           rest     == relevantCustomers(Tail(customerLines), personaName)
       IN  IF /\ includes(toLowerCase(line), toLowerCase(personaName))
              /\ Len(customer) > 0
           THEN <<customer>> \o rest
           ELSE rest

\* persona.name?.toLowerCase() || ''
nameOrEmpty(persona) == IF Truthy(persona, "name") THEN persona.name ELSE <<>>

RECURSIVE personasOf(_, _)
personasOf(sections, customersText) ==
  IF sections = <<>> THEN <<>>
  ELSE LET section == Head(sections)
           persona == parseLines(splitChar(section, "\n"),
                                 Put(EmptyObject, "potentialCustomers", <<>>),
                                 PersonaLabels)
           rest    == personasOf(Tail(sections), customersText)
       IN  IF trim(section) = <<>> THEN rest
           ELSE IF personaComplete(persona)
                THEN <<Put(persona, "potentialCustomers",
                           relevantCustomers(splitChar(customersText, "\n"),
                                             nameOrEmpty(persona)))>> \o rest
                ELSE rest

(***************************************************************************)
(* The two email templates.  A rendered text is the sequence of its        *)
(* pieces in order: each literal stretch of the template is one piece (a   *)
(* long one is written by its first and last words), the first line break  *)
(* is a piece of its own, and a substituted value gives its characters.    *)
(***************************************************************************)
generateSalesEmail(persona, product) ==
  <<"Subject: Streamline Your ">>
  \o persona.name
  \o <<"'s Workflow with ">>
  \o product
  \o <<"\n", "\nDear [Name],\n\nI hope ... that as a ">>
  \o persona.name
  \o <<", you're focused on ">>
  \o persona.caresMostAbout
  \o <<".\n\n">>
  \o product
  \o <<" was specifically ... concerns about ">>
  \o persona.caresLeastAbout
  \o <<".\n\nI'd love to schedule a ... show you how ">>
  \o product
  \o <<" can help you:\n- Maximize ">>
  \o Head(splitChar(persona.caresMostAbout, ","))
  \o <<"\n- Streamline your ... rds,\n[Your name]">>

\* The discovery template with caresLeastAbout written into its subject.
generateDiscoveryEmailLeastInSubject(persona, product) ==
  <<"Subject: Quick question about your ">>
  \o persona.name
  \o <<" challenges">>
  \o persona.caresLeastAbout
  \o <<"\n", "\nHi [Name],\n\nI'm reaching ... with several ">>
  \o persona.name
  \o <<"s who are dealing with challenges around ">>
  \o persona.caresMostAbout
  \o <<".\n\nI'd love to learn more ... rds,\n[Your name]">>

generateDiscoveryEmail(persona, product) ==
  <<"Subject: Quick question about your ">>
  \o persona.name
  \o <<" challenges", "\n", "\nHi [Name],\n\nI'm reaching ... with several ">>
  \o persona.name
  \o <<"s who are dealing with challenges around ">>
  \o persona.caresMostAbout
  \o <<".\n\nI'd love to learn more ... rds,\n[Your name]">>

\* The map adding the sales email only.
RECURSIVE withEmailsSalesOnly(_, _)
withEmailsSalesOnly(personas, product) ==
  IF personas = <<>> THEN <<>>
  ELSE <<Put(Head(personas), "salesEmail",
             generateSalesEmail(Head(personas), product))>>
       \o withEmailsSalesOnly(Tail(personas), product)

\* personas.map(persona => ({...persona, salesEmail: ..., discoveryEmail: ...}))
RECURSIVE withEmails(_, _)
withEmails(personas, product) ==
  IF personas = <<>> THEN <<>>
  ELSE <<Put(Put(Head(personas), "salesEmail",
                 generateSalesEmail(Head(personas), product)),
             "discoveryEmail", generateDiscoveryEmail(Head(personas), product))>>
       \o withEmails(Tail(personas), product)

\* product is the productName of the render whose analyzeProduct is running.
parseCustomerPersonas(text, customersText, product) ==
  withEmails(personasOf(splitNumbered(text), customersText), product)

(***************************************************************************)
(* analyzeProduct: the prompt, the section split and the result            *)
(***************************************************************************)
buildPrompt(product, place) ==
  <<"Analyze the following ... to the ">>
  \o place
  \o <<" market.\n\nProduct: ">>
  \o product
  \o <<"\nLocation: ">>
  \o place
  \o <<"\n\nPlease consider local ... pportunities in ">>
  \o place
  \o <<". Include information ... with focus on ">>
  \o place
  \o <<" presence]\nHeadquarters: ... with focus on ">>
  \o place
  \o <<" presence]\nHeadquarters: ... or impact in ">>
  \o place
  \o <<"...]\n\n2. Product ... escription with ">>
  \o place
  \o <<"-specific use ... in USD for ">>
  \o place
  \o <<"]\nGrowth Rate: [Annual ... percentage in ">>
  \o place
  \o <<"]\n\n[Continue for at least ... relevant to ">>
  \o place
  \o <<"...]\n\n3. Customer ... focused on ">>
  \o place
  \o <<" market]\nCares Most ... specific to ">>
  \o place
  \o <<"]\nCares Least About: [Lower priorities in ">>
  \o place
  \o <<" context]\n\n[Continue for ... common in ">>
  \o place
  \o <<"...]\n\n4. Potential ... role/title] at [">>
  \o place
  \o <<"-based Company] - ... role/title] at [">>
  \o place
  \o <<"-based Company] - ... roles from ">>
  \o place
  \o <<"-based organizations...]">>

\* "Competitors:"
CompetitorsTitle ==
  <<"C", "o", "m", "p", "e", "t", "i", "t", "o", "r", "s", ":">>
\* "Product Applications:"
ApplicationsTitle ==
  <<"P", "r", "o", "d", "u", "c", "t", " ", "A", "p", "p", "l", "i", "c", "a",
    "t", "i", "o", "n", "s", ":">>
\* "Customer Personas:"
PersonasTitle ==
  <<"C", "u", "s", "t", "o", "m", "e", "r", " ", "P", "e", "r", "s", "o", "n",
    "a", "s", ":">>
\* "Potential Customers:"
CustomersTitle ==
  <<"P", "o", "t", "e", "n", "t", "i", "a", "l", " ", "C", "u", "s", "t", "o",
    "m", "e", "r", "s", ":">>

\* Whether /\d+\.\s+(?:Competitors|Product Applications|Customer Personas|
\* Potential Customers):/ matches when tried at index q.
HeadingAt(s, q) ==
  LET w == NumberMarkerAt(s, q)
  IN  /\ w # 0
      /\ \E title \in {CompetitorsTitle, ApplicationsTitle, PersonasTitle,
                       CustomersTitle} : OccursAt(s, title, w)

\* The pieces of s cut before each index of cuts, nothing consumed.  An empty
\* match at the start of the current piece is passed over, as split does.
RECURSIVE CutFrom(_, _, _)
CutFrom(s, cuts, p) ==
  LET ahead == {q \in cuts : q > p}
  IN  IF ahead = {} THEN <<Slice(s, p, Len(s) + 1)>>
      ELSE <<Slice(s, p, Min(ahead))>> \o CutFrom(s, cuts, Min(ahead))

\* response.split(/(?=\d+\.\s+(?:...):)/)
splitSections(response) ==
  CutFrom(response, {q \in 1..Len(response) : HeadingAt(response, q)}, 1)

\* The loop that files each fragment under the first title it includes.
RECURSIVE classify(_, _)
classify(sections, found) ==
  IF sections = <<>> THEN found
  ELSE LET section == Head(sections)
       IN  classify(Tail(sections),
             IF includes(section, CompetitorsTitle)
               THEN [found EXCEPT !.competitorsSection = section]
             ELSE IF includes(section, ApplicationsTitle)
               THEN [found EXCEPT !.applicationsSection = section]
             ELSE IF includes(section, PersonasTitle)
               THEN [found EXCEPT !.personasSection = section]
             ELSE IF includes(section, CustomersTitle)
               THEN [found EXCEPT !.customersSection = section]
             ELSE found)

\* The four section variables starting as the whole response, not as ''.
sectionsOfWholeResponse(response) ==
  classify(splitSections(response),
           [competitorsSection |-> response, applicationsSection |-> response,
            personasSection |-> response, customersSection |-> response])

sectionsOf(response) ==
  classify(splitSections(response),
           [competitorsSection |-> <<>>, applicationsSection |-> <<>>,
            personasSection |-> <<>>, customersSection |-> <<>>])

\* The value handed to setMarketData.
analysis(response, prompt, product) ==
  LET found == sectionsOf(response)
  IN  [competitors      |-> parseCompetitors(found.competitorsSection),
       applications     |-> parseApplications(found.applicationsSection),
       customerPersonas |-> parseCustomerPersonas(found.personasSection,
                                                  found.customersSection, product),
       rawData          |-> [prompt |-> prompt, response |-> response]]

(***************************************************************************)
(* The inputs: what the user types and what the service answers.  An       *)
(* answer is a run of section texts written in the format the prompt asks  *)
(* for, with the departures from it that a generated text shows.           *)
(***************************************************************************)
KName == <<"N", "a", "m", "e">>
\* "Description"
KDescription ==
  <<"D", "e", "s", "c", "r", "i", "p", "t", "i", "o", "n">>
\* "Headquarters"
KHeadquarters ==
  <<"H", "e", "a", "d", "q", "u", "a", "r", "t", "e", "r", "s">>
KRevenue == <<"R", "e", "v", "e", "n", "u", "e">>
\* "Market Size"
KMarketSize ==
  <<"M", "a", "r", "k", "e", "t", " ", "S", "i", "z", "e">>
\* "Growth Rate"
KGrowthRate ==
  <<"G", "r", "o", "w", "t", "h", " ", "R", "a", "t", "e">>
\* "Cares Most About"
KCaresMostAbout ==
  <<"C", "a", "r", "e", "s", " ", "M", "o", "s", "t", " ", "A", "b", "o",
    "u", "t">>
\* "Cares Least About"
KCaresLeastAbout ==
  <<"C", "a", "r", "e", "s", " ", "L", "e", "a", "s", "t", " ", "A", "b",
    "o", "u", "t">>
Acme == <<"A", "c", "m", "e">>
Beta == <<"B", "e", "t", "a">>
Zed == <<"Z", "e", "d">>
Solo == <<"S", "o", "l", "o">>
Crm == <<"C", "R", "M">>
Erp == <<"E", "R", "P">>
NY == <<"N", "Y">>
LA == <<"L", "A">>
\* "$10B (2023: est.)"
RevenueEst ==
  <<"$", "1", "0", "B", " ", "(", "2", "0", "2", "3", ":", " ", "e", "s",
    "t", ".", ")">>
TwoM == <<"$", "2", "M">>
\* "Founded in 2010. Based in LA"
FoundedBased ==
  <<"F", "o", "u", "n", "d", "e", "d", " ", "i", "n", " ", "2", "0", "1",
    "0", ".", " ", "B", "a", "s", "e", "d", " ", "i", "n", " ", "L", "A">>
Billing == <<"B", "i", "l", "l", "i", "n", "g">>
Ops == <<"O", "p", "s">>
FiveB == <<"$", "5", "B">>
SevenPct == <<"7", "%">>
\* "VP of Sales"
VPofSales == <<"V", "P", " ", "o", "f", " ", "S", "a", "l", "e", "s">>
\* "IT Manager"
ITManager == <<"I", "T", " ", "M", "a", "n", "a", "g", "e", "r">>
Cio == <<"C", "I", "O">>
Leads == <<"L", "e", "a", "d", "s">>
RunsIT == <<"R", "u", "n", "s", " ", "I", "T">>
\* "quota, speed"
QuotaSpeed ==
  <<"q", "u", "o", "t", "a", ",", " ", "s", "p", "e", "e", "d">>
Uptime == <<"u", "p", "t", "i", "m", "e">>
Price == <<"p", "r", "i", "c", "e">>
Cost == <<"c", "o", "s", "t">>
Risk == <<"r", "i", "s", "k">>
\* "Tracks Competitors: all"
TracksCompetitors ==
  <<"T", "r", "a", "c", "k", "s", " ", "C", "o", "m", "p", "e", "t", "i",
    "t", "o", "r", "s", ":", " ", "a", "l", "l">>
\* "VP of Sales at Acme - fits well"
LineAcme ==
  <<"V", "P", " ", "o", "f", " ", "S", "a", "l", "e", "s", " ", "a", "t",
    " ", "A", "c", "m", "e", " ", "-", " ", "f", "i", "t", "s", " ", "w",
    "e", "l", "l">>
\* "Random line"
LineRandom == <<"R", "a", "n", "d", "o", "m", " ", "l", "i", "n", "e">>
\* "vp of sales at Beta - ok"
LineLower ==
  <<"v", "p", " ", "o", "f", " ", "s", "a", "l", "e", "s", " ", "a", "t",
    " ", "B", "e", "t", "a", " ", "-", " ", "o", "k">>
\* "IT Manager, VP of Sales at Cy - both"
LineBoth ==
  <<"I", "T", " ", "M", "a", "n", "a", "g", "e", "r", ",", " ", "V", "P",
    " ", "o", "f", " ", "S", "a", "l", "e", "s", " ", "a", "t", " ", "C",
    "y", " ", "-", " ", "b", "o", "t", "h">>
\* " - VP of Sales none"
LineNoLabel ==
  <<" ", "-", " ", "V", "P", " ", "o", "f", " ", "S", "a", "l", "e", "s",
    " ", "n", "o", "n", "e">>
Zap == <<"Z", "a", "p">>
US == <<"U", "S">>

\* "key: value" and the line break after it
Field(key, value) == key \o <<":", " ">> \o value \o <<"\n">>

\* "key: " with no value
BlankField(key) == key \o <<":", " ", "\n">>

\* "n. text"
Numbered(n, text) == <<n, ".", " ">> \o text

\* "n. Title:" on a line of its own
Heading(n, title) == <<n, ".", " ">> \o title \o <<"\n">>

\* Two competitors, the second without a Headquarters line; the first one's
\* revenue holds a second colon.
CompetitorsText ==
  Heading("1", CompetitorsTitle) \o <<"\n">>
  \o Numbered("1", Field(KName, Acme)) \o Field(KDescription, Crm)
  \o Field(KHeadquarters, NY) \o Field(KRevenue, RevenueEst) \o <<"\n">>
  \o Numbered("2", Field(KName, Beta)) \o Field(KDescription, Erp)
  \o Field(KRevenue, TwoM) \o <<"\n">>

\* One competitor whose description holds "2010. " in the middle of its line.
FoundedText ==
  Heading("1", CompetitorsTitle)
  \o Numbered("1", Field(KName, Zed)) \o Field(KDescription, FoundedBased)
  \o Field(KHeadquarters, LA) \o Field(KRevenue, TwoM)

\* One competitor under a title that carries no number, itself not numbered.
BareText ==
  CompetitorsTitle \o <<"\n">>
  \o Field(KName, Solo) \o Field(KDescription, Crm)
  \o Field(KHeadquarters, LA) \o Field(KRevenue, TwoM)

\* Two applications, the second with an empty growth rate.
ApplicationsText ==
  Heading("2", ApplicationsTitle)
  \o Numbered("1", Field(KName, Billing)) \o Field(KDescription, Crm)
  \o Field(KMarketSize, FiveB) \o Field(KGrowthRate, SevenPct)
  \o Numbered("2", Field(KName, Ops)) \o Field(KDescription, Erp)
  \o Field(KMarketSize, FiveB) \o BlankField(KGrowthRate)

VPRecord(least) ==
  Field(KName, VPofSales) \o Field(KDescription, Leads)
  \o Field(KCaresMostAbout, QuotaSpeed) \o Field(KCaresLeastAbout, least)

\* The personas "VP of Sales" and "IT Manager", then "VP of Sales" twice
\* more: once differing from the first in caresLeastAbout only, once the same.
PersonasText ==
  Heading("3", PersonasTitle)
  \o Numbered("1", VPRecord(Price))
  \o Numbered("2", Field(KName, ITManager)) \o Field(KDescription, RunsIT)
  \o Field(KCaresMostAbout, Uptime) \o Field(KCaresLeastAbout, Cost)
  \o Numbered("3", VPRecord(Cost)) \o Numbered("4", VPRecord(Price))

\* One complete persona.
OnePersonaText == Heading("3", PersonasTitle) \o Numbered("1", VPRecord(Price))

\* One persona whose description mentions "Competitors:".
MentionText ==
  Heading("3", PersonasTitle)
  \o Numbered("1", Field(KName, Cio)) \o Field(KDescription, TracksCompetitors)
  \o Field(KCaresMostAbout, Risk) \o Field(KCaresLeastAbout, Cost)

\* The two customer lines "VP of Sales at Acme - fits well" and "Random line".
CustomersText ==
  Heading("4", CustomersTitle) \o LineAcme \o <<"\n">> \o LineRandom \o <<"\n">>

\* Numbered customer lines: a name in another case, a line naming two
\* personas, a line with nothing before its "-", a repeated line.
MoreCustomersText ==
  Heading("4", CustomersTitle)
  \o Numbered("1", LineLower) \o <<"\n">> \o Numbered("2", LineBoth) \o <<"\n">>
  \o LineNoLabel \o <<"\n">> \o Numbered("1", LineLower) \o <<"\n">>

\* The section texts, each under the title it is written for.
Blocks ==
  <<[title |-> CompetitorsTitle, text |-> CompetitorsText],
    [title |-> CompetitorsTitle, text |-> FoundedText],
    [title |-> CompetitorsTitle, text |-> BareText],
    [title |-> ApplicationsTitle, text |-> ApplicationsText],
    [title |-> PersonasTitle, text |-> PersonasText],
    [title |-> PersonasTitle, text |-> OnePersonaText],
    [title |-> PersonasTitle, text |-> MentionText],
    [title |-> CustomersTitle, text |-> CustomersText],
    [title |-> CustomersTitle, text |-> MoreCustomersText]>>

Titles == {CompetitorsTitle, ApplicationsTitle, PersonasTitle, CustomersTitle}

\* The most section texts written for one title in one answer.
MaxPerTitle == 1

\* An answer's shape: which section texts it holds, in which order.  It holds
\* none twice, at most MaxPerTitle for each title, and no more texts than
\* there are titles.
Shapes ==
  {shape \in UNION {[1..n -> 1..Len(Blocks)] : n \in 0..Cardinality(Titles)} :
     /\ \A i, j \in DOMAIN shape : i # j => shape[i] # shape[j]
     /\ \A title \in Titles :
          Cardinality({i \in DOMAIN shape : Blocks[shape[i]].title = title})
            <= MaxPerTitle}

RECURSIVE ResponseText(_)
ResponseText(shape) ==
  IF shape = <<>> THEN <<>>
  ELSE Blocks[Head(shape)].text \o ResponseText(Tail(shape))

\* What the user types into the product field: blanks, or a name.
Products == {<<" ">>, Zap}

\* What the user types into the location field: nothing, or a place.
Places == {<<>>, US}

\* What a rejected call's error carries as its message; "" is no message.
Messages == {"Connection error.", ""}

(***************************************************************************)
(* The component's state                                                   *)
(***************************************************************************)
VARIABLES
  productName,   \* useState('')
  location,      \* useState('')
  marketData,    \* useState<MarketData | null>(null): Null or Some(result)
  loading,       \* useState(false)
  error,         \* useState<string | null>(null): Null or Some(message)
  apiKey,        \* whether import.meta.env.VITE_OPENAI_API_KEY is set
  invocation     \* the latest analyzeProduct invocation: where it stands,
                 \* what its closure holds while it awaits the call, and
                 \* what the call settled with

vars == <<productName, location, marketData, loading, error, apiKey, invocation>>

Null == <<>>
Some(v) == <<v>>

\* The answers analyzeProduct can be resumed with, each with what is handed
\* to setMarketData for it, given the product name and the location the
\* invocation closed over: <<shape, product, place, result>>.
Analysed ==
  {<<shape, product, place,
     analysis(ResponseText(shape), buildPrompt(product, place), product)>> :
     shape \in Shapes, product \in {p \in Products : trim(p) # <<>>},
     place \in {l \in Places : trim(l) # <<>>}}

\* An invocation that is over: it ended before the call (settled is Null),
\* or the call settled with an answer or with a rejection.
Over(settled) ==
  [phase |-> "done", productName |-> <<>>, location |-> <<>>, settled |-> settled]

Init ==
  /\ productName = <<>>
  /\ location = <<>>
  /\ marketData = Null
  /\ loading = FALSE
  /\ error = Null
  /\ apiKey \in BOOLEAN
  /\ invocation = [phase |-> "none", productName |-> <<>>, location |-> <<>>,
                   settled |-> Null]

\* onChange={(e) => setProductName(e.target.value)}
setProductName(value) ==
  /\ productName' = value
  /\ UNCHANGED <<location, marketData, loading, error, apiKey, invocation>>

\* onChange={(e) => setLocation(e.target.value)}
setLocation(value) ==
  /\ location' = value
  /\ UNCHANGED <<productName, marketData, loading, error, apiKey, invocation>>

\* The button without its disabled attribute.
canClickAlways == TRUE

\* <button onClick={analyzeProduct} disabled={loading}>
canClick == ~loading

\* The input checks placed after setMarketData(null): a rejected invocation
\* clears the result on display.
analyzeInvalidClearing ==
  /\ canClick
  /\ trim(productName) = <<>> \/ trim(location) = <<>>
  /\ error' = Some(IF trim(productName) = <<>> THEN "Please enter a product name"
                   ELSE "Please enter a location")
  /\ marketData' = Null
  /\ invocation' = Over(Null)
  /\ UNCHANGED <<productName, location, loading, apiKey>>

\* analyzeProduct returning at one of its two input checks.
analyzeInvalid ==
  /\ canClick
  /\ trim(productName) = <<>> \/ trim(location) = <<>>
  /\ error' = Some(IF trim(productName) = <<>> THEN "Please enter a product name"
                   ELSE "Please enter a location")
  /\ invocation' = Over(Null)
  /\ UNCHANGED <<productName, location, marketData, loading, apiKey>>

\* analyzeProduct throwing for the missing key, before any await: the
\* catch and the finally run in the same turn.
analyzeNoKey ==
  /\ canClick
  /\ trim(productName) # <<>> /\ trim(location) # <<>>
  /\ ~apiKey
  /\ loading' = FALSE
  /\ error' = Some("OpenAI API key is not configured")
  /\ marketData' = Null
  /\ invocation' = Over(Null)
  /\ UNCHANGED <<productName, location, apiKey>>

\* analyzeProduct up to its await of openai.chat.completions.create.
analyzeStart ==
  /\ canClick
  /\ trim(productName) # <<>> /\ trim(location) # <<>>
  /\ apiKey
  /\ loading' = TRUE
  /\ error' = Null
  /\ marketData' = Null
  /\ invocation' = [phase |-> "awaiting", productName |-> productName,
                    location |-> location, settled |-> Null]
  /\ UNCHANGED <<productName, location, apiKey>>

\* The resumption without the check of the response: an empty answer is
\* parsed and stored like any other.
resolveWithoutResponseCheck ==
  /\ invocation.phase = "awaiting"
  /\ \E answered \in Analysed :
       /\ answered[2] = invocation.productName
       /\ answered[3] = invocation.location
       /\ marketData' = Some(answered[4])
       /\ error' = error
       /\ invocation' = Over(Some([kind |-> "resolved", with |-> answered[1]]))
  /\ loading' = FALSE
  /\ UNCHANGED <<productName, location, apiKey>>

\* The awaited call resolves with an answer (the empty answer stands for no
\* content); answered is the answer's entry of Analysed.
resolve ==
  /\ invocation.phase = "awaiting"
  /\ \E answered \in Analysed :
       /\ answered[2] = invocation.productName
       /\ answered[3] = invocation.location
       /\ invocation' = Over(Some([kind |-> "resolved", with |-> answered[1]]))
       /\ IF ResponseText(answered[1]) = <<>>
          THEN /\ error' = Some("No response received from OpenAI")
               /\ marketData' = marketData
          ELSE /\ marketData' = Some(answered[4])
               /\ error' = error
  /\ loading' = FALSE
  /\ UNCHANGED <<productName, location, apiKey>>

\* The rejection handled without the finally block: loading is left as it is.
rejectKeepsLoading(message) ==
  /\ invocation.phase = "awaiting"
  /\ error' = Some(IF message = "" THEN "An unexpected error occurred" ELSE message)
  /\ invocation' = Over(Some([kind |-> "rejected", with |-> <<message>>]))
  /\ UNCHANGED <<productName, location, marketData, loading, apiKey>>

\* The awaited call rejects: setError(err.message || 'An unexpected error occurred').
reject(message) ==
  /\ invocation.phase = "awaiting"
  /\ error' = Some(IF message = "" THEN "An unexpected error occurred" ELSE message)
  /\ loading' = FALSE
  /\ invocation' = Over(Some([kind |-> "rejected", with |-> <<message>>]))
  /\ UNCHANGED <<productName, location, marketData, apiKey>>

Next ==
  \/ \E value \in Products : setProductName(value)
  \/ \E value \in Places : setLocation(value)
  \/ analyzeInvalid
  \/ analyzeNoKey
  \/ analyzeStart
  \/ resolve
  \/ \E message \in Messages : reject(message)

Spec == Init /\ [][Next]_vars

\* The awaited call settles: it resolves or it rejects.
Settle == resolve \/ \E message \in Messages : reject(message)

\* The component with a service whose call, once awaited, settles in the end.
LiveSpec == Spec /\ WF_vars(Settle)

(***************************************************************************)
(* What the properties below speak of                                      *)
(***************************************************************************)
\* The result on display, its answer text and the four fragments
\* analyzeProduct cut the answer into.
Result == marketData[1]
Response == Result.rawData.response
Found == sectionsOf(Response)

\* The shape of the answer the latest invocation's call resolved with.
ResolvedWith(shape) ==
  /\ invocation.phase = "done"
  /\ invocation.settled = Some([kind |-> "resolved", with |-> shape])

\* Every field of fields is set in entity to a string that is not empty,
\* also after trimming.
AllFieldsNonEmpty(entity, fields) ==
  \A f \in fields : f \in DOMAIN entity /\ trim(entity[f]) # <<>>

CompetitorFields == {"name", "description", "headquarters", "revenue"}
ApplicationFields == {"name", "description", "marketSize", "growthRate"}
PersonaFields == {"name", "description", "caresMostAbout", "caresLeastAbout"}

(***************************************************************************)
(* C1: in every analysis result that is set, every competitor, every       *)
(* application and every persona has each of its four required fields set  *)
(* to a non-empty string, whatever the answer text was.                     *)
(***************************************************************************)
C1_RequiredFieldsNonEmpty ==
  marketData # Null =>
    /\ \A i \in 1..Len(Result.competitors) :
         AllFieldsNonEmpty(Result.competitors[i], CompetitorFields)
    /\ \A i \in 1..Len(Result.applications) :
         AllFieldsNonEmpty(Result.applications[i], ApplicationFields)
    /\ \A i \in 1..Len(Result.customerPersonas) :
         AllFieldsNonEmpty(Result.customerPersonas[i], PersonaFields)

\* A result with entities of the three kinds, from an answer in which one
\* competitor lacks its Headquarters line and one application has an empty
\* growth rate.
C1_Witness ==
  /\ ResolvedWith(<<1, 4, 5>>)
  /\ marketData # Null
  /\ Len(Result.competitors) = 1
  /\ Len(Result.applications) = 1
  /\ Len(Result.customerPersonas) = 4

(***************************************************************************)
(* The numbered sub-records of a section, as the specification words them: *)
(* a sub-record is begun by a marker "<integer>. " that leads its line.    *)
(***************************************************************************)
\* Whether a marker begins at index q of s, at the start of a line.
LeadingMarkerAt(s, q) ==
  /\ NumberMarkerAt(s, q) # 0
  /\ q = 1 \/ s[q - 1] = "\n"

LeadingMarkers(s) == {q \in 1..Len(s) : LeadingMarkerAt(s, q)}

\* The text before the first leading marker, then the text each leading
\* marker begins, up to the next one.
LeadingFragments(s) ==
  SplitFrom(s, {<<q, NumberMarkerAt(s, q)>> : q \in LeadingMarkers(s)}, 1)

NumberedSubRecords(s) == Tail(LeadingFragments(s))

\* The required fields of an entity, nothing else.
Required(entity, fields) == [f \in fields |-> entity[f]]

RECURSIVE RequiredOfAll(_, _)
RequiredOfAll(entities, fields) ==
  IF entities = <<>> THEN <<>>
  ELSE <<Required(Head(entities), fields)>> \o RequiredOfAll(Tail(entities), fields)

\* One mapping per sub-record, kept when every label's field is set and
\* non-empty, in the sub-records' order.
RECURSIVE CompleteMappings(_, _)
CompleteMappings(subRecords, labels) ==
  IF subRecords = <<>> THEN <<>>
  ELSE LET mapping == parseLines(splitChar(Head(subRecords), "\n"), EmptyObject,
                                 labels)
           rest    == CompleteMappings(Tail(subRecords), labels)
       IN  IF \A f \in DOMAIN labels : Truthy(mapping, f)
           THEN <<mapping>> \o rest
           ELSE rest

(***************************************************************************)
(* C2: each entity list of a result is exactly, in the original order, one *)
(* entity per numbered sub-record of its section that has every required   *)
(* field present and non-empty; an incomplete sub-record gives no entity   *)
(* and leaves the entities of the other sub-records as they are.           *)
(***************************************************************************)
C2_OneEntityPerCompleteSubRecord ==
  marketData # Null =>
    /\ RequiredOfAll(Result.competitors, CompetitorFields)
         = CompleteMappings(NumberedSubRecords(Found.competitorsSection),
                            CompetitorLabels)
    /\ RequiredOfAll(Result.applications, ApplicationFields)
         = CompleteMappings(NumberedSubRecords(Found.applicationsSection),
                            ApplicationLabels)
    /\ RequiredOfAll(Result.customerPersonas, PersonaFields)
         = CompleteMappings(NumberedSubRecords(Found.personasSection),
                            PersonaLabels)

(***************************************************************************)
(* The split of a line on its first colon only.                            *)
(***************************************************************************)
FirstColonSplit(line) ==
  LET colons == {i \in 1..Len(line) : line[i] = ":"}
  IN  IF colons = {} THEN [key |-> trim(line), value |-> <<>>]
      ELSE [key   |-> trim(Slice(line, 1, Min(colons))),
            value |-> trim(Slice(line, Min(colons) + 1, Len(line) + 1))]

\* "Revenue: $10B (2023: est.)"
RevenueEstLine == KRevenue \o <<":", " ">> \o RevenueEst

\* The lines the three parsers read for the result on display.
LinesRead ==
  UNION {{splitChar(piece, "\n")[k] : k \in 1..Len(splitChar(piece, "\n"))} :
           piece \in UNION {{splitNumbered(section)[j] :
                               j \in 1..Len(splitNumbered(section))} :
                              section \in {Found.competitorsSection,
                                           Found.applicationsSection,
                                           Found.personasSection}}}

(***************************************************************************)
(* C3: a line is split on its first colon only: the key is the trimmed     *)
(* text before it, the value the text after it trimmed at its two ends,    *)
(* later colons and the characters around them unchanged; the line         *)
(* "Revenue: $10B (2023: est.)" gives the value "$10B (2023: est.)".       *)
(***************************************************************************)
C3_FirstColonOnly ==
  marketData # Null =>
    /\ \A line \in LinesRead : splitLine(line) = FirstColonSplit(line)
    /\ RevenueEstLine \in LinesRead =>
         \A i \in 1..Len(Result.competitors) :
           Result.competitors[i].name = Acme =>
             Result.competitors[i].revenue = RevenueEst

(***************************************************************************)
(* C4: the entities built from a section are never more than its numbered  *)
(* sub-records, a sub-record being begun by a leading "<integer>. "; an    *)
(* integer, a dot and white space in the middle of a line begin none, so   *)
(* the fragments parsed are the leading fragments of the section.          *)
(***************************************************************************)
C4_EntitiesWithinSubRecords ==
  marketData # Null =>
    /\ Len(Result.competitors)
         <= Len(NumberedSubRecords(Found.competitorsSection))
    /\ Len(Result.applications)
         <= Len(NumberedSubRecords(Found.applicationsSection))
    /\ Len(Result.customerPersonas)
         <= Len(NumberedSubRecords(Found.personasSection))
    /\ \A section \in {Found.competitorsSection, Found.applicationsSection,
                       Found.personasSection} :
         splitNumbered(section) = LeadingFragments(section)

(***************************************************************************)
(* The section headings of an answer, as the specification words them.     *)
(***************************************************************************)
\* Where the numbered heading of title begins in s.
HeadingsOf(s, title) ==
  {q \in 1..Len(s) : NumberMarkerAt(s, q) # 0 /\ OccursAt(s, title, NumberMarkerAt(s, q))}

AllHeadings(s) == UNION {HeadingsOf(s, title) : title \in Titles}

\* The fragment of s that begins at the heading at q: up to the next heading.
FragmentAt(s, q) ==
  LET later == {h \in AllHeadings(s) : h > q}
  IN  Slice(s, q, IF later = {} THEN Len(s) + 1 ELSE Min(later))

\* The fragment analyzeProduct hands on for title.
SectionFor(title) ==
  CASE title = CompetitorsTitle  -> Found.competitorsSection
    [] title = ApplicationsTitle -> Found.applicationsSection
    [] title = PersonasTitle     -> Found.personasSection
    [] title = CustomersTitle    -> Found.customersSection

(***************************************************************************)
(* C5: the answer is cut at each section heading, nothing consumed, and    *)
(* each parser receives the fragment that begins at its own heading,       *)
(* wherever the heading stands and whatever the other sections' bodies     *)
(* hold; a section whose title the answer does not hold is empty.          *)
(***************************************************************************)
C5_FragmentOfOwnHeading ==
  marketData # Null =>
    \A title \in Titles :
      /\ Cardinality(HeadingsOf(Response, title)) = 1 =>
           SectionFor(title)
             = FragmentAt(Response, CHOOSE q \in HeadingsOf(Response, title) : TRUE)
      /\ ~includes(Response, title) => SectionFor(title) = <<>>

(***************************************************************************)
(* The potential customers of a persona, as the specification words them.  *)
(***************************************************************************)
\* The trimmed text before the first "-" of line.
LabelOf(line) ==
  LET dashes == {i \in 1..Len(line) : line[i] = "-"}
  IN  trim(Slice(line, 1, IF dashes = {} THEN Len(line) + 1 ELSE Min(dashes)))

\* The labels of the lines of fragment that mention name in any case and
\* have a label, in line order, a repeated line giving a repeated label.
CustomersOf(fragment, name) ==
  LET lines    == splitChar(fragment, "\n")
      Attaches(line) == /\ includes(toLowerCase(line), toLowerCase(name))
                        /\ LabelOf(line) # <<>>
      attached == SelectSeq(lines, Attaches)
  IN  [k \in 1..Len(attached) |-> LabelOf(attached[k])]

\* "VP of Sales at Acme"
AtAcme == SubSeq(LineAcme, 1, 19)
\* "1. vp of sales at Beta"
AtBeta == <<"1", ".", " ">> \o SubSeq(LineLower, 1, 19)
\* "2. IT Manager, VP of Sales at Cy"
AtCy == <<"2", ".", " ">> \o SubSeq(LineBoth, 1, 29)

(***************************************************************************)
(* C6: the potentialCustomers of every built persona are, in line order    *)
(* and with duplicates kept, the trimmed text before the first "-" of each *)
(* line of the potential-customers fragment whose lower-cased text holds   *)
(* the persona's lower-cased name, lines with an empty label left out; no  *)
(* other persona has a part in it.  With the lines "VP of Sales at Acme -  *)
(* fits well" and "Random line", the first attaches to "VP of Sales" only. *)
(***************************************************************************)
C6_PotentialCustomersPerPersona ==
  marketData # Null /\ Result.customerPersonas # <<>> =>
    LET fragment == Found.customersSection
    IN  \A i \in 1..Len(Result.customerPersonas) :
          LET persona == Result.customerPersonas[i]
          IN  /\ persona.potentialCustomers = CustomersOf(fragment, persona.name)
              /\ fragment = CustomersText =>
                   /\ persona.name = VPofSales =>
                        persona.potentialCustomers = <<AtAcme>>
                   /\ persona.name = ITManager =>
                        persona.potentialCustomers = <<>>

\* Personas "VP of Sales" and "IT Manager" with customer lines of which one is
\* written in lower case and twice, one names both personas and one has no
\* label.
C6_Witness ==
  /\ ResolvedWith(<<5, 9>>)
  /\ marketData # Null
  /\ Len(Result.customerPersonas) = 4
  /\ Result.customerPersonas[1].name = VPofSales
  /\ Result.customerPersonas[1].potentialCustomers = <<AtBeta, AtCy, AtBeta>>
  /\ Result.customerPersonas[2].name = ITManager
  /\ Result.customerPersonas[2].potentialCustomers = <<AtCy>>

(***************************************************************************)
(* C7: the two templates are deterministic: personas with the same name,   *)
(* caresMostAbout and caresLeastAbout, rendered for the same product, get  *)
(* identical emails; personas that differ only in caresLeastAbout get the  *)
(* same subject line of the discovery email.                               *)
(***************************************************************************)
\* The first line of a rendered email.
SubjectLine(email) ==
  Slice(email, 1, Min({k \in 1..Len(email) : email[k] = "\n"} \cup {Len(email) + 1}))

C7_TemplatesDeterministic ==
  marketData # Null =>
    \A i, j \in 1..Len(Result.customerPersonas) :
      LET p == Result.customerPersonas[i]
          q == Result.customerPersonas[j]
      IN  (p.name = q.name /\ p.description = q.description
           /\ p.caresMostAbout = q.caresMostAbout) =>
            /\ SubjectLine(p.discoveryEmail) = SubjectLine(q.discoveryEmail)
            /\ p.caresLeastAbout = q.caresLeastAbout =>
                 /\ p.salesEmail = q.salesEmail
                 /\ p.discoveryEmail = q.discoveryEmail

\* Personas 1 and 4 are the same record; persona 3 differs from them in
\* caresLeastAbout only, which shows in its sales email.
C7_Witness ==
  /\ marketData # Null
  /\ Len(Result.customerPersonas) = 4
  /\ Required(Result.customerPersonas[1], PersonaFields)
       = Required(Result.customerPersonas[4], PersonaFields)
  /\ Result.customerPersonas[1].salesEmail = Result.customerPersonas[4].salesEmail
  /\ Result.customerPersonas[1].name = Result.customerPersonas[3].name
  /\ Result.customerPersonas[1].description = Result.customerPersonas[3].description
  /\ Result.customerPersonas[1].caresMostAbout
       = Result.customerPersonas[3].caresMostAbout
  /\ Result.customerPersonas[1].caresLeastAbout
       # Result.customerPersonas[3].caresLeastAbout
  /\ Result.customerPersonas[1].salesEmail # Result.customerPersonas[3].salesEmail
  /\ SubjectLine(Result.customerPersonas[1].discoveryEmail)
       = SubjectLine(Result.customerPersonas[3].discoveryEmail)

(***************************************************************************)
(* C8: every persona of a result has salesEmail and discoveryEmail, both,  *)
(* and a potentialCustomers sequence.  An answer with two competitors of   *)
(* which one lacks its headquarters, no applications section, and one      *)
(* complete persona with one matching customer line gives 1 competitor,    *)
(* 0 applications and 1 persona with 1 potential customer and both emails. *)
(***************************************************************************)
\* The latest invocation's call resolved with an answer of the end-to-end
\* scenario: its three sections, in any order.
ScenarioResolved ==
  /\ invocation.phase = "done"
  /\ invocation.settled # Null
  /\ invocation.settled[1].kind = "resolved"
  /\ Len(invocation.settled[1].with) = 3
  /\ {invocation.settled[1].with[k] : k \in 1..3} = {1, 6, 8}

C8_BothTemplatesTogether ==
  marketData # Null =>
    /\ \A i \in 1..Len(Result.customerPersonas) :
         LET persona == Result.customerPersonas[i]
         IN  /\ {"salesEmail", "discoveryEmail", "potentialCustomers"}
                  \subseteq DOMAIN persona
             /\ persona.salesEmail # <<>>
             /\ persona.discoveryEmail # <<>>
             /\ DOMAIN persona.potentialCustomers
                  = 1..Len(persona.potentialCustomers)
    /\ ScenarioResolved =>
         /\ Len(Result.competitors) = 1
         /\ Len(Result.applications) = 0
         /\ Len(Result.customerPersonas) = 1
         /\ Len(Result.customerPersonas[1].potentialCustomers) = 1

\* The end-to-end scenario has run.
C8_Witness ==
  /\ ResolvedWith(<<1, 6, 8>>)
  /\ marketData # Null
  /\ Result.competitors[1].name = Acme
  /\ Result.customerPersonas[1].potentialCustomers = <<AtAcme>>
  /\ Result.customerPersonas[1].salesEmail # <<>>
  /\ Result.customerPersonas[1].discoveryEmail # <<>>

(***************************************************************************)
(* C9: when the answer is not empty and does not hold a section's title,   *)
(* the entity list of that section is empty in the result, and the         *)
(* analysis has completed with a result and no error; when the potential-  *)
(* customers fragment is empty, every persona's potentialCustomers is the  *)
(* empty sequence.                                                         *)
(***************************************************************************)
\* The latest invocation's call resolved with an answer that is not empty.
ResolvedNonEmpty ==
  /\ invocation.phase = "done"
  /\ invocation.settled # Null
  /\ invocation.settled[1].kind = "resolved"
  /\ invocation.settled[1].with # <<>>

ResolvingStep ==
  /\ invocation.phase = "awaiting"
  /\ invocation'.phase = "done"
  /\ invocation'.settled # Null
  /\ invocation'.settled[1].kind = "resolved"

\* A step in which an invocation fails.
FailingStep ==
  \/ analyzeInvalid
  \/ analyzeNoKey
  \/ \E message \in Messages : reject(message)
  \/ ResolvingStep /\ invocation'.settled[1].with = <<>>

\* A step in which an invocation's call resolves with an answer that is not
\* empty.
SucceedingStep == ResolvingStep /\ invocation'.settled[1].with # <<>>

CompleteResult(result) ==
  /\ DOMAIN result = {"competitors", "applications", "customerPersonas", "rawData"}
  /\ DOMAIN result.rawData = {"prompt", "response"}
  /\ DOMAIN result.competitors = 1..Len(result.competitors)
  /\ DOMAIN result.applications = 1..Len(result.applications)
  /\ DOMAIN result.customerPersonas = 1..Len(result.customerPersonas)

C10_Step ==
  /\ FailingStep =>
       /\ marketData' = Null \/ marketData' = marketData
       /\ error' # Null
       /\ invocation'.phase = "done"
       /\ ~loading'
  /\ SucceedingStep =>
       /\ marketData' # Null
       /\ CompleteResult(marketData'[1])
       /\ marketData'[1].rawData.response = ResponseText(invocation'.settled[1].with)
       /\ marketData'[1].rawData.prompt
            = buildPrompt(invocation.productName, invocation.location)
       /\ error' = Null
  /\ marketData' # Null => CompleteResult(marketData'[1])
  /\ (invocation.phase # "awaiting" /\ invocation'.phase = "awaiting") =>
       ~loading /\ loading' /\ error' = Null

C10_CompleteResultOrNone == [][C10_Step]_vars

\* An invocation has failed on an empty response: no result, one message.
C10_Witness ==
  /\ ResolvedWith(<<>>)
  /\ marketData = Null
  /\ error = Some("No response received from OpenAI")
  /\ ~loading

(***************************************************************************)
(* Invocations of analyzeProduct and the button that starts them           *)
(***************************************************************************)
\* A click on the Analyze button: analyzeProduct is invoked.
Click == analyzeInvalid \/ analyzeNoKey \/ analyzeStart

\* An invocation is awaiting the external service.
Awaiting == invocation.phase = "awaiting"

ProductMessage == Some("Please enter a product name")
LocationMessage == Some("Please enter a location")

\* The fields as analyzeProduct finds them fail one of its two checks.
InputsRejected == trim(productName) = <<>> \/ trim(location) = <<>>

C12_Step ==
  /\ (Click /\ InputsRejected) =>
       /\ loading' = loading
       /\ marketData' = marketData
       /\ invocation'.phase = "done" /\ invocation'.settled = Null
       /\ error' = IF trim(productName) = <<>> THEN ProductMessage
                   ELSE LocationMessage
  /\ error' \in {ProductMessage, LocationMessage} /\ error' # error =>
       InputsRejected /\ UNCHANGED <<loading, marketData>>
  /\ ((marketData # Null /\ marketData' = Null)
        \/ (error # Null /\ error' = Null)) =>
       ~InputsRejected /\ ~loading

C12_RejectedInvocationKeepsResult == [][C12_Step]_vars

\* A result of an earlier analysis on display next to the message of a later
\* invocation rejected for its blank location.
C12_Witness ==
  /\ marketData # Null
  /\ Len(Result.competitors) = 1
  /\ error = LocationMessage
  /\ ~loading
  /\ invocation = Over(Null)

(***************************************************************************)
(* C13: every analysis that passes validation sets loading to true, and,   *)
(* the external call settling in the end, sets loading back to false with  *)
(* exactly one of marketData and error set by that invocation; while       *)
(* loading is true the button is disabled and no second analysis starts.   *)
(***************************************************************************)
\* Exactly one of marketData and error is set.
OneOutcome == (marketData # Null) # (error # Null)

\* The latest invocation's call has settled and the invocation is over.
Finished ==
  /\ invocation.phase = "done"
  /\ invocation.settled # Null
  /\ ~loading
  /\ OneOutcome

C13_Step ==
  /\ (Click /\ ~InputsRejected /\ apiKey) => loading' /\ invocation'.phase = "awaiting"
  /\ (Click /\ ~InputsRejected /\ ~apiKey) =>
       ~loading' /\ error' # Null /\ marketData' = Null
  /\ (Awaiting /\ invocation'.phase = "done") =>
       /\ ~loading'
       /\ (marketData' # Null) # (error' # Null)
       /\ invocation'.settled # Null

C13_LoadingEndsWithOneOutcome ==
  /\ [][C13_Step]_vars
  /\ [](loading => ~ENABLED Click)
  /\ Awaiting ~> Finished
  /\ loading ~> ~loading

\* An invocation that passed validation is over, its call rejected without a
\* message: loading is false again, the error is set and marketData is not.
C13_Witness ==
  /\ invocation = Over(Some([kind |-> "rejected", with |-> <<"">>]))
  /\ ~loading
  /\ error = Some("An unexpected error occurred")
  /\ marketData = Null

=============================================================================
